---- MODULE Spec2Model ----
(***************************************************************************)
(* Model of the Pharmacy Performance Dashboard script (src/app.py).        *)
(* The script runs top to bottom on every interaction: load_data, the      *)
(* sidebar (selectors, presets, date range), APPLY FILTERS, COMPARISON     *)
(* PERIOD, KPI CALCULATIONS and INSIGHTS. Each section is one action.      *)
(* Dates are proleptic Gregorian calendar dates (datetime.date); numbers   *)
(* are exact rationals <<numerator, denominator>> standing for the floats. *)
(***************************************************************************)
EXTENDS Integers, Sequences, FiniteSets

\* ------------------------------------------------------------------------
\* Bounds
\* ------------------------------------------------------------------------
\* largest number of rows of the sheet
MaxRows == 3

\* last year of the anchor dates the preset branches are applied to
LastAnchorYear == 2024

\* ------------------------------------------------------------------------
\* datetime.date
\* ------------------------------------------------------------------------
Date(y, m, d) == [year |-> y, month |-> m, day |-> d]

\* pandas NaT: the value of an unparseable date
NaT == Date(0, 0, 0)

IsLeap(y) == (y % 4 = 0) /\ ((y % 100 # 0) \/ (y % 400 = 0))

DaysInMonth(y, m) ==
    IF m = 2 THEN (IF IsLeap(y) THEN 29 ELSE 28)
    ELSE IF m \in {4, 6, 9, 11} THEN 30 ELSE 31

\* the dates datetime.date accepts; anything else is a ValueError
ValidDate(y, m, d) ==
    /\ y >= 1
    /\ m \in 1..12
    /\ d >= 1
    /\ d <= DaysInMonth(y, m)

DaysBeforeYear(y) ==
    (y - 1) * 365 + ((y - 1) \div 4) - ((y - 1) \div 100) + ((y - 1) \div 400)

RECURSIVE DaysBeforeMonth(_, _)
DaysBeforeMonth(y, m) ==
    IF m = 1 THEN 0 ELSE DaysBeforeMonth(y, m - 1) + DaysInMonth(y, m - 1)

\* date.toordinal()
ToOrdinal(dt) == DaysBeforeYear(dt.year) + DaysBeforeMonth(dt.year, dt.month) + dt.day

\* date.fromordinal()
FromOrdinal(n) ==
    LET y == CHOOSE yy \in (n \div 366)..((n \div 365) + 1) :
                 DaysBeforeYear(yy) < n /\ n <= DaysBeforeYear(yy + 1)
        r == n - DaysBeforeYear(y)
        m == CHOOSE mm \in 1..12 :
                 DaysBeforeMonth(y, mm) < r /\ r <= DaysBeforeMonth(y, mm) + DaysInMonth(y, mm)
    IN Date(y, m, r - DaysBeforeMonth(y, m))

\* date - timedelta(days=n)
MinusDays(dt, n) == FromOrdinal(ToOrdinal(dt) - n)

\* (a - b).days
DaysBetween(a, b) == ToOrdinal(a) - ToOrdinal(b)

\* comparisons of dates; every comparison with NaT is False
DateLE(a, b) == a # NaT /\ b # NaT /\ ToOrdinal(a) <= ToOrdinal(b)

DateLT(a, b) == a # NaT /\ b # NaT /\ ToOrdinal(a) < ToOrdinal(b)

\* min(a, b) of two dates
DateMin(a, b) == IF DateLT(b, a) THEN b ELSE a

\* ------------------------------------------------------------------------
\* Numbers: exact rationals <<n, d>>, d > 0, in lowest terms
\* ------------------------------------------------------------------------
Abs(x) == IF x < 0 THEN -x ELSE x

RECURSIVE GCD(_, _)
GCD(a, b) == IF b = 0 THEN a ELSE GCD(b, a % b)

Rat(n, d) ==
    LET s == IF d < 0 THEN -1 ELSE 1
        g == GCD(Abs(n), Abs(d))
    IN <<(s * n) \div g, (s * d) \div g>>

Zero == <<0, 1>>

Hundred == <<100, 1>>

RAdd(a, b) == Rat(a[1] * b[2] + b[1] * a[2], a[2] * b[2])

RSub(a, b) == Rat(a[1] * b[2] - b[1] * a[2], a[2] * b[2])

RMul(a, b) == Rat(a[1] * b[1], a[2] * b[2])

\* a / b, b non-zero
RDiv(a, b) == Rat(a[1] * b[2], a[2] * b[1])

RLt(a, b) == a[1] * b[2] < b[1] * a[2]

\* truth value of a number: zero is falsy
Truthy(a) == a[1] # 0

\* ------------------------------------------------------------------------
\* The sheet (CSV text) and load_data
\* ------------------------------------------------------------------------
\* text of a Month cell: "YYYY-MM-DD", "YYYY-MM", or text that is no date
MonthText(k, y, m, d) == [kind |-> k, y |-> y, m |-> m, d |-> d]

\* text of a numeric cell: digit groups separated by commas ("1,200" is
\* <<1, 200>>), an empty cell, or text that is no number
NumText(k, neg, groups) == [kind |-> k, neg |-> neg, groups |-> groups]

Num(groups) == NumText("num", FALSE, groups)

RawRow(store, dept, item, month, price, margin) ==
    [Store |-> store, Department |-> dept, Item |-> item, Month |-> month,
     ExtPrice |-> price, TotalMargin |-> margin]

\* the rows a sheet is drawn from
Catalog ==
    << RawRow("A", "OTC", "Amox",    MonthText("ymd", 2024, 1, 31), Num(<<1, 0>>),   Num(<<200>>)),
       RawRow("A", "OTC", "VitC",    MonthText("ymd", 2024, 2, 29), Num(<<1, 200>>), Num(<<300>>)),
       RawRow("B", "Rx",  "Amox",    MonthText("ymd", 2024, 3, 31), Num(<<900>>),    NumText("num", TRUE, <<100>>)),
       RawRow("B", "OTC", "VitC",    MonthText("ym",  2024, 1, 0),  Num(<<1, 0>>),   Num(<<150>>)),
       RawRow("A", "Rx",  "Insulin", MonthText("ym",  2024, 2, 0),  Num(<<1, 200>>), Num(<<240>>)),
       RawRow("B", "OTC", "VitC",    MonthText("ymd", 2023, 2, 28), Num(<<800>>),    NumText("blank", FALSE, <<>>)),
       RawRow("A", "Rx",  "Amox",    MonthText("ymd", 2024, 2, 30), Num(<<500>>),    Num(<<50>>)),
       RawRow("A", "OTC", "VitC",    MonthText("ymd", 2024, 2, 29), NumText("junk", FALSE, <<>>), Num(<<10>>)),
       RawRow("B", "Rx",  "Insulin", MonthText("ymd", 2024, 1, 31), Num(<<0>>),      Num(<<0>>)),
       RawRow("B", "Rx",  "Amox",    MonthText("ymd", 2024, 3, 31), NumText("blank", FALSE, <<>>), Num(<<120>>)) >>

\* pd.to_datetime(text, errors="coerce")
ParseMonth(t) ==
    IF t.kind = "ymd" /\ ValidDate(t.y, t.m, t.d) THEN Date(t.y, t.m, t.d)
    ELSE IF t.kind = "ym" /\ ValidDate(t.y, t.m, 1) THEN Date(t.y, t.m, 1)
    ELSE NaT

\* a float column value: a number or NaN
Float(v) == [nan |-> FALSE, v |-> v]

NaN == [nan |-> TRUE, v |-> 0]

RECURSIVE JoinGroups(_)
JoinGroups(g) ==
    IF Len(g) = 0 THEN 0
    ELSE JoinGroups(SubSeq(g, 1, Len(g) - 1)) * 1000 + g[Len(g)]

\* astype(float) raises ValueError on text that is no number
FloatRaises(t) == t.kind = "junk"

\* .astype(str).str.replace(",", "").astype(float)
ParseFloat(t) ==
    IF t.kind = "blank" THEN NaN
    ELSE Float((IF t.neg THEN -1 ELSE 1) * JoinGroups(t.groups))

LoadRow(r) ==
    [Store |-> r.Store, Department |-> r.Department, Item |-> r.Item,
     Month |-> ParseMonth(r.Month),
     Revenue |-> ParseFloat(r.ExtPrice),
     TotalMargin |-> ParseFloat(r.TotalMargin)]

LoadRaises(rows) ==
    \E i \in 1..Len(rows) : FloatRaises(rows[i].ExtPrice) \/ FloatRaises(rows[i].TotalMargin)

load_data(rows) == [i \in 1..Len(rows) |-> LoadRow(rows[i])]

\* the rows of the catalog with index in s, in sheet order
RECURSIVE RowsOf(_, _)
RowsOf(s, i) ==
    IF i > Len(Catalog) THEN <<>>
    ELSE (IF i \in s THEN <<Catalog[i]>> ELSE <<>>) \o RowsOf(s, i + 1)

\* sheets with at least one parseable Month (the sidebar needs a latest date)
Sheets ==
    { RowsOf(s, 1) : s \in { t \in SUBSET (1..Len(Catalog)) :
          /\ Cardinality(t) <= MaxRows
          /\ \E i \in t : ParseMonth(Catalog[i].Month) # NaT } }

\* ------------------------------------------------------------------------
\* Data frame helpers
\* ------------------------------------------------------------------------
\* Series.sum(): NaN is skipped
RECURSIVE SumRevenue(_)
SumRevenue(rows) ==
    IF Len(rows) = 0 THEN 0
    ELSE (IF rows[1].Revenue.nan THEN 0 ELSE rows[1].Revenue.v) + SumRevenue(Tail(rows))

RECURSIVE SumTotalMargin(_)
SumTotalMargin(rows) ==
    IF Len(rows) = 0 THEN 0
    ELSE (IF rows[1].TotalMargin.nan THEN 0 ELSE rows[1].TotalMargin.v) + SumTotalMargin(Tail(rows))

\* Series.max() / Series.min() of the Month column: NaT is skipped
ValidMonths(rows) == { rows[i].Month : i \in 1..Len(rows) } \ {NaT}

MaxMonth(rows) ==
    CHOOSE d \in ValidMonths(rows) : \A e \in ValidMonths(rows) : DateLE(e, d)

MinMonth(rows) ==
    CHOOSE d \in ValidMonths(rows) : \A e \in ValidMonths(rows) : DateLE(d, e)

\* ------------------------------------------------------------------------
\* Sidebar: wall clock, presets, date range
\* ------------------------------------------------------------------------
\* wall-clock dates of a run (datetime.now().date())
Todays == { Date(2024, 2, 15), Date(2024, 3, 1), Date(2024, 6, 15) }

\* dates offered to the date_input widget
PickDates ==
    { Date(2023, 2, 28), Date(2024, 1, 1), Date(2024, 1, 31),
      Date(2024, 2, 29), Date(2024, 3, 31) }

Presets == { "Custom", "MTD", "QTD", "YTD" }

ComparisonTypes == { "Previous Period", "Same Period Last Year" }

\* last_complete_month that keeps the wall-clock date on the 1st of a month
last_complete_month_keep_first(today_actual) ==
    IF today_actual.day = 1 THEN today_actual
    ELSE MinusDays(Date(today_actual.year, today_actual.month, 1), 1)

\* end of the month before the wall-clock date
last_complete_month(today_actual) ==
    IF today_actual.day = 1 THEN MinusDays(today_actual, 1)
    ELSE MinusDays(Date(today_actual.year, today_actual.month, 1), 1)

effective_max_date_of(maxd, today_actual) ==
    DateMin(maxd, last_complete_month(today_actual))

\* PresetWindow with the quarter taken from month \div 3
PresetWindowQuarterSlip(p, emd) ==
    IF p = "MTD" THEN << Date(emd.year, emd.month, 1), emd >>
    ELSE IF p = "QTD"
         THEN LET quarter_month == (emd.month \div 3) * 3 + 1
              IN << Date(emd.year, quarter_month, 1), emd >>
    ELSE IF p = "YTD" THEN << Date(emd.year, 1, 1), emd >>
    ELSE IF p = "Last 6 Months"
         THEN IF emd.month > 6
              THEN << Date(emd.year, emd.month - 6, 1), emd >>
              ELSE << Date(emd.year - 1, 12 + emd.month - 6, 1), emd >>
    ELSE IF emd.month = 12
         THEN << Date(emd.year - 1, 1, 1), emd >>
         ELSE << Date(emd.year - 1, emd.month + 1, 1), emd >>

\* <<start_date, end_date>> of a preset: MTD, QTD, YTD, "Last 6 Months" and
\* (last branch) "Last 12 Months"
PresetWindow(p, emd) ==
    IF p = "MTD" THEN << Date(emd.year, emd.month, 1), emd >>
    ELSE IF p = "QTD"
         THEN LET quarter_month == ((emd.month - 1) \div 3) * 3 + 1
              IN << Date(emd.year, quarter_month, 1), emd >>
    ELSE IF p = "YTD" THEN << Date(emd.year, 1, 1), emd >>
    ELSE IF p = "Last 6 Months"
         THEN IF emd.month > 6
              THEN << Date(emd.year, emd.month - 6, 1), emd >>
              ELSE << Date(emd.year - 1, 12 + emd.month - 6, 1), emd >>
    ELSE IF emd.month = 12
         THEN << Date(emd.year - 1, 1, 1), emd >>
         ELSE << Date(emd.year - 1, emd.month + 1, 1), emd >>

\* every preset branch of the script; the selectbox offers Presets only
PresetBranches == { "MTD", "QTD", "YTD", "Last 6 Months", "Last 12 Months" }

\* the <<start, end>> pairs the date_input widget can return
DateSelections(mind, emd) ==
    { <<s, e>> \in PickDates \X PickDates :
         DateLE(mind, s) /\ DateLE(s, e) /\ DateLE(e, emd) }

StoreChoices(rows) == { "All Stores" } \cup { rows[i].Store : i \in 1..Len(rows) }

DepartmentChoices(rows) ==
    { "All Departments" } \cup { rows[i].Department : i \in 1..Len(rows) }

\* ------------------------------------------------------------------------
\* APPLY FILTERS
\* ------------------------------------------------------------------------
\* FilterRows with the end date excluded
FilterRowsOpenEnd(rows, store, dept, s, e) ==
    LET Keep(r) ==
            /\ (store # "All Stores" => r.Store = store)
            /\ (dept # "All Departments" => r.Department = dept)
            /\ DateLE(s, r.Month)
            /\ DateLT(r.Month, e)
    IN SelectSeq(rows, Keep)

\* the rows of one store / department whose Month lies in [s, e]
FilterRows(rows, store, dept, s, e) ==
    LET Keep(r) ==
            /\ (store # "All Stores" => r.Store = store)
            /\ (dept # "All Departments" => r.Department = dept)
            /\ DateLE(s, r.Month)
            /\ DateLE(r.Month, e)
    IN SelectSeq(rows, Keep)

\* ------------------------------------------------------------------------
\* COMPARISON PERIOD
\* ------------------------------------------------------------------------
\* <<comparison_start, comparison_end>> of "Same Period Last Year": the
\* except branch runs when either replace(year=...) raises ValueError
SamePeriodLastYear(s, e) ==
    IF ValidDate(s.year - 1, s.month, s.day) /\ ValidDate(e.year - 1, e.month, e.day)
    THEN << Date(s.year - 1, s.month, s.day), Date(e.year - 1, e.month, e.day) >>
    ELSE << Date(s.year - 1, s.month, 28), Date(e.year - 1, e.month, 28) >>

\* PreviousPeriod ending on the first day of the current window
PreviousPeriodTouching(s, e) ==
    LET days_diff == DaysBetween(e, s)
        cend == s
    IN << MinusDays(cend, days_diff), cend >>

\* PreviousPeriod one day too long
PreviousPeriodLong(s, e) ==
    LET days_diff == DaysBetween(e, s) + 1
        cend == MinusDays(s, 1)
    IN << MinusDays(cend, days_diff), cend >>

\* <<comparison_start, comparison_end>> of "Previous Period"
PreviousPeriod(s, e) ==
    LET days_diff == DaysBetween(e, s)
        cend == MinusDays(s, 1)
    IN << MinusDays(cend, days_diff), cend >>

ComparisonWindow(ctype, s, e) ==
    IF ctype = "Same Period Last Year" THEN SamePeriodLastYear(s, e)
    ELSE PreviousPeriod(s, e)

\* ------------------------------------------------------------------------
\* KPI CALCULATIONS
\* ------------------------------------------------------------------------
\* calculate_kpis with the margin left as a ratio (no "* 100")
calculate_kpis_ratio(rows) ==
    LET revenue == Rat(SumRevenue(rows), 1)
        gross_profit == Rat(SumTotalMargin(rows), 1)
        footfall == Rat(Len(rows), 1)
    IN [ revenue |-> revenue,
         gross_profit |-> gross_profit,
         margin_pct |-> IF Truthy(revenue) THEN RDiv(gross_profit, revenue) ELSE Zero,
         footfall |-> footfall,
         avg_basket |-> IF Truthy(footfall) THEN RDiv(revenue, footfall) ELSE Zero ]

\* calculate_kpis with the basket taken from gross profit
calculate_kpis_gp_basket(rows) ==
    LET revenue == Rat(SumRevenue(rows), 1)
        gross_profit == Rat(SumTotalMargin(rows), 1)
        footfall == Rat(Len(rows), 1)
    IN [ revenue |-> revenue,
         gross_profit |-> gross_profit,
         margin_pct |-> IF Truthy(revenue)
                        THEN RMul(RDiv(gross_profit, revenue), Hundred) ELSE Zero,
         footfall |-> footfall,
         avg_basket |-> IF Truthy(footfall) THEN RDiv(gross_profit, footfall) ELSE Zero ]

calculate_kpis(rows) ==
    LET revenue == Rat(SumRevenue(rows), 1)
        gross_profit == Rat(SumTotalMargin(rows), 1)
        footfall == Rat(Len(rows), 1)
    IN [ revenue |-> revenue,
         gross_profit |-> gross_profit,
         margin_pct |-> IF Truthy(revenue)
                        THEN RMul(RDiv(gross_profit, revenue), Hundred) ELSE Zero,
         footfall |-> footfall,
         avg_basket |-> IF Truthy(footfall) THEN RDiv(revenue, footfall) ELSE Zero ]

NoKpis ==
    [ revenue |-> Zero, gross_profit |-> Zero, margin_pct |-> Zero,
      footfall |-> Zero, avg_basket |-> Zero ]

\* pct_change as a fraction (no "* 100")
pct_change_fraction(c, p) ==
    IF Truthy(p) THEN RDiv(RSub(c, p), p) ELSE Zero

\* ((curr - comp) / comp * 100) if comp else 0
pct_change(c, p) ==
    IF Truthy(p) THEN RMul(RDiv(RSub(c, p), p), Hundred) ELSE Zero

\* rev_change, gp_change, margin_change, footfall_change, basket_change
Deltas(c, p) ==
    [ rev_change |-> pct_change(c.revenue, p.revenue),
      gp_change |-> pct_change(c.gross_profit, p.gross_profit),
      margin_change |-> RSub(c.margin_pct, p.margin_pct),
      footfall_change |-> pct_change(c.footfall, p.footfall),
      basket_change |-> pct_change(c.avg_basket, p.avg_basket) ]

NoDeltas ==
    [ rev_change |-> Zero, gp_change |-> Zero, margin_change |-> Zero,
      footfall_change |-> Zero, basket_change |-> Zero ]

\* ------------------------------------------------------------------------
\* EXECUTIVE SUMMARY
\* ------------------------------------------------------------------------
\* titles of the three summary boxes
SummaryBoxes(d, c) ==
    [ revenue |-> IF RLt(Zero, d.rev_change) THEN "Revenue Growth" ELSE "Revenue Decline",
      margin |-> IF RLt(<<20, 1>>, c.margin_pct) THEN "Healthy Margins" ELSE "Margin Pressure",
      basket |-> IF RLt(Zero, d.basket_change) THEN "Basket Value Up" ELSE "Basket Value" ]

NoBoxes == [ revenue |-> "", margin |-> "", basket |-> "" ]

\* ------------------------------------------------------------------------
\* TREND ANALYSIS
\* ------------------------------------------------------------------------
\* Month.dt.to_period("M"), as a number of months
to_period(d) == d.year * 12 + d.month

\* Series.count(): NaN is not counted
RECURSIVE CountRevenue(_)
CountRevenue(rows) ==
    IF Len(rows) = 0 THEN 0
    ELSE (IF rows[1].Revenue.nan THEN 0 ELSE 1) + CountRevenue(Tail(rows))

\* the group keys of groupby: the months of the rows, NaT dropped
Periods(rows) == { to_period(rows[i].Month) : i \in { j \in 1..Len(rows) : rows[j].Month # NaT } }

\* groupby sorts the group keys
RECURSIVE SortedPeriods(_)
SortedPeriods(S) ==
    IF S = {} THEN <<>>
    ELSE LET m == CHOOSE x \in S : \A y \in S : x <= y
         IN <<m>> \o SortedPeriods(S \ {m})

MonthGroup(rows, p) ==
    LET InGroup(r) == r.Month # NaT /\ to_period(r.Month) = p
    IN SelectSeq(rows, InGroup)

\* groupby(Month.dt.to_period("M")).agg(Revenue sum, Gross_Profit sum,
\* Transactions = count of Revenue)
monthly_agg(rows) ==
    LET sp == SortedPeriods(Periods(rows))
    IN [ k \in 1..Len(sp) |->
           [ Month |-> sp[k],
             Revenue |-> SumRevenue(MonthGroup(rows, sp[k])),
             Gross_Profit |-> SumTotalMargin(MonthGroup(rows, sp[k])),
             Transactions |-> CountRevenue(MonthGroup(rows, sp[k])) ] ]

\* ------------------------------------------------------------------------
\* INSIGHTS
\* ------------------------------------------------------------------------
Insight(box, title) == [box |-> box, title |-> title]

RevenueInsight(d) ==
    IF RLt(<<10, 1>>, d.rev_change) THEN << Insight("success", "Strong Growth") >>
    ELSE IF RLt(Zero, d.rev_change) THEN << Insight("info", "Moderate Growth") >>
    ELSE << Insight("warning", "Revenue Decline") >>

MarginInsight(d, c) ==
    IF RLt(d.margin_change, <<-2, 1>>) THEN << Insight("warning", "Margin Pressure") >>
    ELSE IF RLt(c.margin_pct, <<18, 1>>) THEN << Insight("warning", "Low Margins") >>
    ELSE <<>>

BasketInsight(d) ==
    IF RLt(d.basket_change, <<-5, 1>>) THEN << Insight("warning", "Declining Basket") >>
    ELSE IF RLt(<<5, 1>>, d.basket_change) THEN << Insight("success", "Growing Basket") >>
    ELSE <<>>

TopPerformerInsight(rows) ==
    IF Len(rows) > 0 THEN << Insight("info", "Top Performer") >> ELSE <<>>

BuildInsights(d, c, rows) ==
    RevenueInsight(d) \o MarginInsight(d, c) \o BasketInsight(d) \o TopPerformerInsight(rows)

\* the display cut after three entries
DisplayedThree(ins) == SubSeq(ins, 1, IF Len(ins) < 3 THEN Len(ins) ELSE 3)

\* insights[:5]
Displayed(ins) == SubSeq(ins, 1, IF Len(ins) < 5 THEN Len(ins) ELSE 5)

\* ------------------------------------------------------------------------
\* State
\* ------------------------------------------------------------------------
VARIABLES
    pc,                   \* section of the script the run is at
    sheet,                \* rows of the Google sheet (text)
    today_actual,         \* wall-clock date of the run
    df,                   \* the loaded data frame
    selected_store, selected_department, preset, comparison_type,
    max_date, effective_max_date,
    start_date, end_date,
    filtered_df,
    comparison_start, comparison_end, comparison_df,
    curr, comp, deltas,   \* KPI tuples and their changes
    summary_boxes,        \* titles of the executive summary boxes
    monthly_current,      \* per-month aggregation of the filtered slice
    insights,
    displayed             \* the insight boxes rendered

vars ==
    << pc, sheet, today_actual, df, selected_store, selected_department, preset,
       comparison_type, max_date, effective_max_date, start_date, end_date,
       filtered_df, comparison_start, comparison_end, comparison_df,
       curr, comp, deltas, summary_boxes, monthly_current, insights, displayed >>

selection == << selected_store, selected_department, preset, comparison_type,
                max_date, effective_max_date, start_date, end_date >>

slices == << filtered_df, comparison_start, comparison_end, comparison_df >>

results == << curr, comp, deltas, summary_boxes, monthly_current, insights, displayed >>

Init ==
    /\ pc = "load"
    /\ sheet \in Sheets
    /\ today_actual \in Todays
    /\ df = <<>>
    /\ selected_store = "All Stores"
    /\ selected_department = "All Departments"
    /\ preset = "Custom"
    /\ comparison_type = "Previous Period"
    /\ max_date = NaT
    /\ effective_max_date = NaT
    /\ start_date = NaT
    /\ end_date = NaT
    /\ filtered_df = <<>>
    /\ comparison_start = NaT
    /\ comparison_end = NaT
    /\ comparison_df = <<>>
    /\ curr = NoKpis
    /\ comp = NoKpis
    /\ deltas = NoDeltas
    /\ summary_boxes = NoBoxes
    /\ monthly_current = <<>>
    /\ insights = <<>>
    /\ displayed = <<>>

\* df = load_data(): a cell that is no number aborts the run
LoadData ==
    /\ pc = "load"
    /\ IF LoadRaises(sheet)
       THEN pc' = "failed" /\ df' = df
       ELSE pc' = "sidebar" /\ df' = load_data(sheet)
    /\ UNCHANGED << sheet, today_actual, selection, slices, results >>

\* SIDEBAR FILTERS: selectors, comparison type and the date window
Sidebar ==
    /\ pc = "sidebar"
    /\ \E store \in StoreChoices(df), dept \in DepartmentChoices(df),
          p \in Presets, ctype \in ComparisonTypes :
         LET mind == MinMonth(df)
             maxd == MaxMonth(df)
             emd == effective_max_date_of(maxd, today_actual)
         IN /\ selected_store' = store
            /\ selected_department' = dept
            /\ preset' = p
            /\ comparison_type' = ctype
            /\ max_date' = maxd
            /\ effective_max_date' = emd
            /\ IF p = "Custom"
               THEN \E sel \in DateSelections(mind, emd) :
                        start_date' = sel[1] /\ end_date' = sel[2]
               ELSE /\ start_date' = PresetWindow(p, emd)[1]
                    /\ end_date' = PresetWindow(p, emd)[2]
    /\ pc' = "filter"
    /\ UNCHANGED << sheet, today_actual, df, slices, results >>

\* APPLY FILTERS
ApplyFilters ==
    /\ pc = "filter"
    /\ filtered_df' = FilterRows(df, selected_store, selected_department, start_date, end_date)
    /\ pc' = "comparison"
    /\ UNCHANGED << sheet, today_actual, df, selection, results,
                    comparison_start, comparison_end, comparison_df >>

\* COMPARISON PERIOD
ComparisonPeriod ==
    /\ pc = "comparison"
    /\ LET w == ComparisonWindow(comparison_type, start_date, end_date)
       IN /\ comparison_start' = w[1]
          /\ comparison_end' = w[2]
          /\ comparison_df' = FilterRows(df, selected_store, selected_department, w[1], w[2])
    /\ pc' = "kpi"
    /\ UNCHANGED << sheet, today_actual, df, selection, results, filtered_df >>

\* KPI CALCULATIONS
KpiCalculations ==
    /\ pc = "kpi"
    /\ curr' = calculate_kpis(filtered_df)
    /\ comp' = calculate_kpis(comparison_df)
    /\ deltas' = Deltas(calculate_kpis(filtered_df), calculate_kpis(comparison_df))
    /\ pc' = "summary"
    /\ UNCHANGED << sheet, today_actual, df, selection, slices,
                    summary_boxes, monthly_current, insights, displayed >>

\* EXECUTIVE SUMMARY
ExecutiveSummary ==
    /\ pc = "summary"
    /\ summary_boxes' = SummaryBoxes(deltas, curr)
    /\ pc' = "trends"
    /\ UNCHANGED << sheet, today_actual, df, selection, slices, curr, comp, deltas,
                    monthly_current, insights, displayed >>

\* TREND ANALYSIS: monthly_current
TrendAnalysis ==
    /\ pc = "trends"
    /\ monthly_current' = monthly_agg(filtered_df)
    /\ pc' = "insights"
    /\ UNCHANGED << sheet, today_actual, df, selection, slices, curr, comp, deltas,
                    summary_boxes, insights, displayed >>

\* INSIGHTS & RECOMMENDATIONS: build the list and display insights[:5]
Insights ==
    /\ pc = "insights"
    /\ insights' = BuildInsights(deltas, curr, filtered_df)
    /\ displayed' = Displayed(BuildInsights(deltas, curr, filtered_df))
    /\ pc' = "done"
    /\ UNCHANGED << sheet, today_actual, df, selection, slices, curr, comp, deltas,
                    summary_boxes, monthly_current >>

\* an interaction re-executes the script; the loaded frame is cached
Rerun ==
    /\ pc = "done"
    /\ pc' = "sidebar"
    /\ today_actual' \in { t \in Todays : DateLE(today_actual, t) }
    /\ selected_store' = "All Stores"
    /\ selected_department' = "All Departments"
    /\ preset' = "Custom"
    /\ comparison_type' = "Previous Period"
    /\ max_date' = NaT
    /\ effective_max_date' = NaT
    /\ start_date' = NaT
    /\ end_date' = NaT
    /\ filtered_df' = <<>>
    /\ comparison_start' = NaT
    /\ comparison_end' = NaT
    /\ comparison_df' = <<>>
    /\ curr' = NoKpis
    /\ comp' = NoKpis
    /\ deltas' = NoDeltas
    /\ summary_boxes' = NoBoxes
    /\ monthly_current' = <<>>
    /\ insights' = <<>>
    /\ displayed' = <<>>
    /\ UNCHANGED << sheet, df >>

Next ==
    \/ LoadData
    \/ Sidebar
    \/ ApplyFilters
    \/ ComparisonPeriod
    \/ KpiCalculations
    \/ ExecutiveSummary
    \/ TrendAnalysis
    \/ Insights
    \/ Rerun

Spec == Init /\ [][Next]_vars

\* ------------------------------------------------------------------------
\* The preset branches applied to every anchor date
\* ------------------------------------------------------------------------
AnchorDates ==
    { dt \in [year : (LastAnchorYear - 1)..LastAnchorYear, month : 1..12, day : 1..31] :
         ValidDate(dt.year, dt.month, dt.day) }

\* a run whose latest data date is the anchor, at a later wall-clock date
PresetInit ==
    /\ pc = "preset"
    /\ effective_max_date \in AnchorDates
    /\ max_date = effective_max_date
    /\ today_actual = Date(effective_max_date.year + 1, 1, 1)
    /\ preset \in PresetBranches
    /\ sheet = <<>>
    /\ df = <<>>
    /\ selected_store = "All Stores"
    /\ selected_department = "All Departments"
    /\ comparison_type = "Previous Period"
    /\ start_date = NaT
    /\ end_date = NaT
    /\ filtered_df = <<>>
    /\ comparison_start = NaT
    /\ comparison_end = NaT
    /\ comparison_df = <<>>
    /\ curr = NoKpis
    /\ comp = NoKpis
    /\ deltas = NoDeltas
    /\ summary_boxes = NoBoxes
    /\ monthly_current = <<>>
    /\ insights = <<>>
    /\ displayed = <<>>

\* the if / elif chain on preset
ResolvePreset ==
    /\ pc = "preset"
    /\ start_date' = PresetWindow(preset, effective_max_date)[1]
    /\ end_date' = PresetWindow(preset, effective_max_date)[2]
    /\ pc' = "resolved"
    /\ UNCHANGED << sheet, today_actual, df, selected_store, selected_department, preset,
                    comparison_type, max_date, effective_max_date, slices, results >>

PresetNext == ResolvePreset

PresetSpec == PresetInit /\ [][PresetNext]_vars

\* ------------------------------------------------------------------------
\* Properties
\* ------------------------------------------------------------------------
AfterKpis == pc \in { "summary", "trends", "insights", "done" }

AfterFilter == pc \in { "comparison", "kpi", "summary", "trends", "insights", "done" }

AfterComparison == pc \in { "kpi", "summary", "trends", "insights", "done" }

\* x is the percentage change from p to c: x * p = (c - p) * 100 when p is
\* non-zero, and x = 0 when p is zero
IsPctChange(x, c, p) ==
    IF p # Zero THEN RMul(x, p) = RMul(RSub(c, p), Hundred) ELSE x = Zero

\* C1: revenue, gross-profit, footfall and avg-basket changes equal
\* ((curr - prev) / prev) * 100 when prev is non-zero and 0 when prev is 0;
\* the margin change is the point difference curr_margin - prev_margin.
C1_Deltas ==
    AfterKpis =>
        /\ IsPctChange(deltas.rev_change, curr.revenue, comp.revenue)
        /\ IsPctChange(deltas.gp_change, curr.gross_profit, comp.gross_profit)
        /\ IsPctChange(deltas.footfall_change, curr.footfall, comp.footfall)
        /\ IsPctChange(deltas.basket_change, curr.avg_basket, comp.avg_basket)
        /\ RAdd(deltas.margin_change, comp.margin_pct) = curr.margin_pct

\* a non-zero comparison revenue next to a zero comparison gross profit, and
\* a margin change that is not the percentage change of the margins
C1_Witness ==
    /\ pc = "done"
    /\ comp.revenue # Zero
    /\ deltas.rev_change # Zero
    /\ comp.gross_profit = Zero
    /\ curr.gross_profit # Zero
    /\ deltas.margin_change # Zero

\* C2: margin_pct = gross_profit / revenue * 100 when revenue > 0 and 0 when
\* revenue = 0, with revenue and gross_profit the sums over the slice.
C2_MarginPct ==
    AfterKpis =>
        /\ curr.revenue = <<SumRevenue(filtered_df), 1>>
        /\ curr.gross_profit = <<SumTotalMargin(filtered_df), 1>>
        /\ comp.revenue = <<SumRevenue(comparison_df), 1>>
        /\ comp.gross_profit = <<SumTotalMargin(comparison_df), 1>>
        /\ \A k \in { curr, comp } :
              /\ RLt(Zero, k.revenue) => RMul(k.margin_pct, k.revenue) = RMul(k.gross_profit, Hundred)
              /\ k.revenue = Zero => k.margin_pct = Zero

\* a slice with revenue and margin next to a non-empty slice without revenue
C2_Witness ==
    /\ pc = "done"
    /\ RLt(Zero, curr.revenue)
    /\ curr.margin_pct # Zero
    /\ Len(comparison_df) > 0
    /\ comp.revenue = Zero

\* C3: footfall is the row count of the slice; avg_basket = revenue /
\* footfall when footfall > 0 and 0 for the empty slice.
C3_AvgBasket ==
    AfterKpis =>
        /\ curr.footfall = <<Len(filtered_df), 1>>
        /\ comp.footfall = <<Len(comparison_df), 1>>
        /\ \A k \in { curr, comp } :
              /\ RLt(Zero, k.footfall) => RMul(k.avg_basket, k.footfall) = k.revenue
              /\ k.footfall = Zero => k.avg_basket = Zero

\* several rows in the current slice and an empty comparison slice
C3_Witness ==
    /\ pc = "done"
    /\ Len(filtered_df) >= 2
    /\ curr.avg_basket # Zero
    /\ curr.avg_basket # curr.revenue
    /\ Len(comparison_df) = 0
    /\ comp.avg_basket = Zero

\* row r matches the selectors and its Month lies in [start_date, end_date]
Selected(r) ==
    /\ (selected_store # "All Stores" => r.Store = selected_store)
    /\ (selected_department # "All Departments" => r.Department = selected_department)
    /\ r.Month # NaT
    /\ ToOrdinal(start_date) <= ToOrdinal(r.Month)
    /\ ToOrdinal(r.Month) <= ToOrdinal(end_date)

\* C4: the filtered slice is exactly the rows of the selected store and
\* department (any, for "All ...") with start_date <= Month <= end_date,
\* end points included, in the order of the frame.
C4_FilteredSlice ==
    AfterFilter =>
        /\ Len(filtered_df) = Cardinality({ i \in 1..Len(df) : Selected(df[i]) })
        /\ \A j \in 1..Len(filtered_df) : Selected(filtered_df[j])
        /\ \A i \in 1..Len(df) :
              Selected(df[i]) => \E j \in 1..Len(filtered_df) : filtered_df[j] = df[i]
        /\ \A j, k \in 1..Len(filtered_df) :
              j < k => \E a, b \in 1..Len(df) :
                          a < b /\ df[a] = filtered_df[j] /\ df[b] = filtered_df[k]

\* a store and a department are selected, rows lie on both end points of
\* the window, and some row of the frame is filtered out
C4_Witness ==
    /\ pc = "done"
    /\ selected_store # "All Stores"
    /\ selected_department # "All Departments"
    /\ start_date # end_date
    /\ \E j \in 1..Len(filtered_df) : filtered_df[j].Month = start_date
    /\ \E j \in 1..Len(filtered_df) : filtered_df[j].Month = end_date
    /\ Len(filtered_df) < Len(df)

\* d moved back one year, February 29 becoming February 28
ShiftYear(d) ==
    IF d.month = 2 /\ d.day = 29 THEN Date(d.year - 1, 2, 28)
    ELSE Date(d.year - 1, d.month, d.day)

\* C5: in "Same Period Last Year" mode the comparison window is [start and
\* end with the year reduced by one], only a February 29 being replaced by
\* day 28; the other end point keeps its day of month.
C5_SamePeriodLastYear ==
    (AfterComparison /\ comparison_type = "Same Period Last Year") =>
        /\ comparison_start = ShiftYear(start_date)
        /\ comparison_end = ShiftYear(end_date)

\* C6: in "Previous Period" mode the comparison window is
\* [start - (end - start + 1) days, start - 1 day]: as many days as the
\* current window, ending the day before start.
C6_PreviousPeriod ==
    (AfterComparison /\ comparison_type = "Previous Period") =>
        /\ ValidDate(comparison_start.year, comparison_start.month, comparison_start.day)
        /\ ValidDate(comparison_end.year, comparison_end.month, comparison_end.day)
        /\ ToOrdinal(comparison_end) = ToOrdinal(start_date) - 1
        /\ ToOrdinal(comparison_start) =
              ToOrdinal(start_date) - (ToOrdinal(end_date) - ToOrdinal(start_date) + 1)
        /\ ToOrdinal(comparison_end) - ToOrdinal(comparison_start)
              = ToOrdinal(end_date) - ToOrdinal(start_date)

\* a window of several months, February 29 among its days, whose comparison
\* window starts in the year before and ends in the year of the window
C6_Witness ==
    /\ pc = "done"
    /\ comparison_type = "Previous Period"
    /\ start_date.month # end_date.month
    /\ ToOrdinal(start_date) < ToOrdinal(Date(2024, 2, 29))
    /\ ToOrdinal(Date(2024, 2, 29)) < ToOrdinal(end_date)
    /\ comparison_start.year < comparison_end.year
    /\ comparison_end.year = start_date.year

\* calendar months since year 0
MonthIndex(d) == d.year * 12 + d.month

\* C7: previous-period comparison of the latest calendar month present (MTD)
\* takes exactly the rows dated in the calendar month before it, whatever
\* their day of month; rows {2024-01: 1000, 2024-02: 1200} give
\* revenue_change = 20.0.
C7_PrecedingCalendarMonth ==
    (AfterKpis /\ comparison_type = "Previous Period" /\ preset = "MTD"
        /\ effective_max_date = max_date) =>
        LET Preceding(r) ==
                /\ (selected_store # "All Stores" => r.Store = selected_store)
                /\ (selected_department # "All Departments"
                       => r.Department = selected_department)
                /\ r.Month # NaT
                /\ MonthIndex(r.Month) = MonthIndex(end_date) - 1
        IN /\ comparison_df = SelectSeq(df, Preceding)
           /\ (/\ sheet = << Catalog[4], Catalog[5] >>
               /\ selected_store = "All Stores"
               /\ selected_department = "All Departments")
                 => deltas.rev_change = <<20, 1>>

Quick == { "MTD", "QTD", "YTD" }

AfterSidebar ==
    pc \in { "filter", "comparison", "kpi", "summary", "trends", "insights", "done" }

\* the last day of the month before t
MonthEndBefore(t) == FromOrdinal(ToOrdinal(Date(t.year, t.month, 1)) - 1)

\* the window a run at wall-clock date t resolves preset p to
ResolvedAt(p, t) == PresetWindow(p, effective_max_date_of(max_date, t))

\* C8 as stated: the pair MTD/QTD/YTD resolve to does not depend on the
\* wall-clock date, and end_date is the latest date in the dataset.
C8_DataAnchored ==
    (AfterSidebar /\ preset \in Quick) =>
        /\ end_date = max_date
        /\ \A t \in Todays : ResolvedAt(preset, t) = << start_date, end_date >>

\* C8 amended: end_date is the earlier of the latest date in the dataset and
\* the last day of the month before the wall-clock date; runs at wall-clock
\* dates whose preceding month end is not before the latest date of the
\* dataset resolve a preset to the same pair, ending at that latest date.
C8_CappedAnchor ==
    (AfterSidebar /\ preset \in Quick) =>
        /\ end_date = IF ToOrdinal(max_date) <= ToOrdinal(MonthEndBefore(today_actual))
                      THEN max_date ELSE MonthEndBefore(today_actual)
        /\ \A t \in Todays :
              (/\ ToOrdinal(max_date) <= ToOrdinal(MonthEndBefore(today_actual))
               /\ ToOrdinal(max_date) <= ToOrdinal(MonthEndBefore(t)))
                 => /\ ResolvedAt(preset, t) = << start_date, end_date >>
                    /\ end_date = max_date

\* a quarter-to-date run on the 1st of a month and a later wall-clock date
\* that resolves to the same window
C8_Witness ==
    /\ pc = "done"
    /\ preset = "QTD"
    /\ today_actual.day = 1
    /\ end_date = max_date
    /\ start_date # end_date
    /\ \E t \in Todays :
          /\ t # today_actual
          /\ ToOrdinal(max_date) <= ToOrdinal(MonthEndBefore(t))
          /\ ResolvedAt(preset, t) = << start_date, end_date >>

\* C9: an unparseable date or numeric cell never makes loading or
\* aggregation fail; rows without a date are left out of the date-filtered
\* slices and the remaining rows are aggregated.
C9_UnparseableValues ==
    /\ pc # "failed"
    /\ AfterComparison =>
          /\ \A j \in 1..Len(filtered_df) : filtered_df[j].Month # NaT
          /\ \A j \in 1..Len(comparison_df) : comparison_df[j].Month # NaT

\* C10: an empty filtered slice gives an insight list of exactly one entry.
C10_EmptySliceFallback ==
    (pc = "done" /\ Len(filtered_df) = 0) => Len(insights) = 1

\* |x| of a rational
RAbs(a) == << Abs(a[1]), a[2] >>

BasketTitles == { "Declining Basket", "Growing Basket" }

TitlesOf(ins) == { ins[i].title : i \in 1..Len(ins) }

\* C11: a basket-direction insight is emitted if and only if the absolute
\* avg-basket change is at least 5, the values +5 and -5 included:
\* "Declining Basket" for a negative change, "Growing Basket" for a
\* positive one.
C11_BasketThreshold ==
    pc = "done" =>
        /\ (TitlesOf(insights) \cap BasketTitles # {})
              <=> ~RLt(RAbs(deltas.basket_change), <<5, 1>>)
        /\ "Declining Basket" \in TitlesOf(insights) => RLt(deltas.basket_change, Zero)
        /\ "Growing Basket" \in TitlesOf(insights) => RLt(Zero, deltas.basket_change)

\* the rule an insight comes from, in the order the rules are applied
RuleOf(title) ==
    IF title \in { "Strong Growth", "Moderate Growth", "Revenue Decline" } THEN 1
    ELSE IF title \in { "Margin Pressure", "Low Margins" } THEN 2
    ELSE IF title \in BasketTitles THEN 3
    ELSE 4

\* C12: the displayed insights never exceed the maximum count (5) and keep
\* the rule order: revenue entry first, then margin, basket and top
\* performer entries; no entry is displayed before an earlier rule's entry
\* and none is dropped by the cap.
C12_InsightOrder ==
    pc = "done" =>
        /\ Len(displayed) <= 5
        /\ displayed = insights
        /\ Len(displayed) >= 1
        /\ RuleOf(displayed[1].title) = 1
        /\ \A i, j \in 1..Len(displayed) :
              i < j => RuleOf(displayed[i].title) < RuleOf(displayed[j].title)
        /\ ("Top Performer" \in TitlesOf(displayed)) <=> (Len(filtered_df) > 0)

\* all four rules have an entry on display
C12_Witness ==
    /\ pc = "done"
    /\ Len(displayed) = 4
    /\ { RuleOf(displayed[i].title) : i \in 1..4 } = 1..4

\* C13: MTD, QTD and YTD resolve to end_date = the anchor and start_date =
\* the first day of the calendar month, quarter (month 1, 4, 7 or 10) and
\* year containing the anchor; start_date <= end_date, in the same year.
C13_PresetStart ==
    (pc = "resolved" /\ preset \in Quick) =>
        /\ end_date = effective_max_date
        /\ start_date.day = 1
        /\ start_date.year = end_date.year
        /\ ToOrdinal(start_date) <= ToOrdinal(end_date)
        /\ preset = "MTD" => start_date.month = end_date.month
        /\ preset = "QTD" =>
              /\ start_date.month \in { 1, 4, 7, 10 }
              /\ start_date.month <= end_date.month
              /\ end_date.month <= start_date.month + 2
        /\ preset = "YTD" => start_date.month = 1

\* quarter-to-date at the last day of a quarter's last month
C13_Witness ==
    /\ pc = "resolved"
    /\ preset = "QTD"
    /\ end_date.month = 9
    /\ end_date.day = 30
    /\ start_date = Date(end_date.year, 7, 1)

C15_WindowsDisjoint ==
    AfterComparison =>
        /\ ToOrdinal(comparison_end) < ToOrdinal(start_date)
        /\ \A i \in 1..Len(filtered_df), j \in 1..Len(comparison_df) :
              filtered_df[i] # comparison_df[j]

\* the current window spans less than a year
ShortWindow == ToOrdinal(end_date) - ToOrdinal(start_date) < 365

\* C15 amended: in "Previous Period" mode always, and in "Same Period Last
\* Year" mode when end_date is fewer than 365 days after start_date, the
\* comparison window ends strictly before the current window starts and no
\* row is in both slices.
C15_ShortWindowsDisjoint ==
    (AfterComparison /\ (comparison_type = "Previous Period" \/ ShortWindow)) =>
        /\ ToOrdinal(comparison_end) < ToOrdinal(start_date)
        /\ \A i \in 1..Len(filtered_df), j \in 1..Len(comparison_df) :
              filtered_df[i] # comparison_df[j]

\* a same-period-last-year comparison of a window of several months with
\* rows in both slices
C15_Witness ==
    /\ pc = "done"
    /\ comparison_type = "Same Period Last Year"
    /\ ShortWindow
    /\ start_date.month # end_date.month
    /\ Len(filtered_df) > 0
    /\ Len(comparison_df) > 0

\* C16: the "Revenue Decline" insight and the "Revenue Decline" summary box
\* are shown only when current revenue is strictly lower than comparison
\* revenue; not when the comparison slice has no revenue and current
\* revenue is positive.
C16_DeclineOnlyWhenLower ==
    pc = "done" =>
        (("Revenue Decline" \in TitlesOf(displayed) \/ summary_boxes.revenue = "Revenue Decline")
            => RLt(curr.revenue, comp.revenue))

\* sum of column f of a table
RECURSIVE SumColumn(_, _)
SumColumn(t, f) == IF Len(t) = 0 THEN 0 ELSE t[1][f] + SumColumn(Tail(t), f)

AfterTrends == pc \in { "insights", "done" }

\* C17: the per-month aggregation of the filtered slice agrees with the KPI
\* tuple: monthly Revenue sums to revenue, monthly Gross_Profit to
\* gross_profit, monthly Transactions to footfall, and every row of the
\* slice falls in exactly one month group.
C17_MonthlyTotals ==
    AfterTrends =>
        /\ << SumColumn(monthly_current, "Revenue"), 1 >> = curr.revenue
        /\ << SumColumn(monthly_current, "Gross_Profit"), 1 >> = curr.gross_profit
        /\ << SumColumn(monthly_current, "Transactions"), 1 >> = curr.footfall
        /\ \A i \in 1..Len(filtered_df) :
              Cardinality({ k \in 1..Len(monthly_current) :
                  monthly_current[k].Month = MonthIndex(filtered_df[i].Month) }) = 1

====
